---- MODULE Spec2Model ----
(***************************************************************************)
(* Model of the word-find game (src/src/App.js): one React component that  *)
(* owns the letter set, the input box, the scored words and the feedback   *)
(* message, validates submissions (duplicate, letters, dictionary lookup)  *)
(* and keeps a high score in localStorage.                                 *)
(*                                                                         *)
(* A character is a one-character string, a word a sequence of characters. *)
(* Every handler runs to completion on the browser's event loop; the only  *)
(* suspension point of a submission is the dictionary lookup, so a         *)
(* submission is two steps: the synchronous part (up to the fetch) and the *)
(* completion of the lookup.  Handlers are closures of the render in which *)
(* the event fired, so the completion reads the scoredWords and            *)
(* currentWord of that render, not the current ones.                       *)
(***************************************************************************)
EXTENDS Naturals, Sequences, FiniteSets, Bags, TLC

VARIABLES
    currentWord,     \* useState: the text of the input box
    currentLetters,  \* useState: the letter tiles of this game
    scoredWords,     \* useState: words scored so far, in order
    feedback,        \* useState: the message on screen ("" = none)
    localStorage,    \* window.localStorage: a function from keys to strings
    pending,         \* bag of dictionary lookups in flight (with their closures)
    timers,          \* pending setTimeout callbacks: ticks left, oldest first
    feedbackAge,     \* ticks since the visible feedback was set
    genNum,          \* generateRandomLettersForCurrentGame: numLetters
    genLetters,      \* generateRandomLettersForCurrentGame: letters
    genPc,           \* generateRandomLettersForCurrentGame: position
    confirmedWords   \* history (recorded in HistorySpec only): upper-case forms
                     \* of the words whose own lookup the dictionary has
                     \* confirmed since the page was loaded

vars == <<currentWord, currentLetters, scoredWords, feedback, localStorage,
          pending, timers, feedbackAge, genNum, genLetters, genPc,
          confirmedWords>>

gen == <<genNum, genLetters, genPc>>

-----------------------------------------------------------------------------
(* Bounds of the model *)

\* lookups in flight at once
MaxInFlight == 2
\* feedback timers pending at once
MaxTimers == 2
\* length of the scored-word list at which no further word is submitted
MaxScored == 2
\* clock ticks that make up the feedback duration
DurationTicks == 2
\* largest numLetters tried by the generator specification
MaxNumLetters == 2
\* longest word tried by the validator specification
MaxWordLen == 4

-----------------------------------------------------------------------------
(* Program constants *)

DEFAULT_LETTERS_IN_GAME == 5

ALPHABET ==
    <<"A","B","C","D","E","F","G","H","I","J","K","L","M",
      "N","O","P","Q","R","S","T","U","V","W","X","Y","Z">>

VOWELS == <<"A","E","I","O","U">>

HIGH_SCORE_PROPERTY == "high score"

\* the lower-case letters, in the order of ALPHABET (String.prototype.toUpperCase)
LowerCase ==
    <<"a","b","c","d","e","f","g","h","i","j","k","l","m",
      "n","o","p","q","r","s","t","u","v","w","x","y","z">>

MsgDuplicate == "Word already used!"
MsgInvalidLetters == "Word contains invalid letter(s)!"
MsgNotRecognized == "Word not recognized!"
MsgNice == "Nice!"

-----------------------------------------------------------------------------
(* Strings and arrays *)

\* letter.toUpperCase() of one character
toUpperCase(letter) ==
    IF \E i \in 1..Len(LowerCase) : LowerCase[i] = letter
    THEN ALPHABET[CHOOSE i \in 1..Len(LowerCase) : LowerCase[i] = letter]
    ELSE letter

\* word.toUpperCase()
wordToUpperCase(word) == [i \in 1..Len(word) |-> toUpperCase(word[i])]

\* Array.prototype.includes
includes(array, x) == \E i \in 1..Len(array) : array[i] = x

\* Array.prototype.indexOf, 1-based; the caller has checked includes
indexOf(array, x) ==
    CHOOSE i \in 1..Len(array) :
        /\ array[i] = x
        /\ \A j \in 1..(i-1) : array[j] # x

\* Array.prototype.splice(index, 1): the array without the element at index
splice(array, index) ==
    [i \in 1..(Len(array)-1) |-> IF i < index THEN array[i] ELSE array[i+1]]

\* String.prototype.charAt(index) with a fractional index: the index is truncated
\* to an integer.  The index is num/den, 0-based.
charAt(str, num, den) == str[(num \div den) + 1]

\* the decimal digits, digit d at index d + 1
Digits == <<"0","1","2","3","4","5","6","7","8","9">>

\* String(n) of a non-negative integer: its decimal digits, as setItem stores it
RECURSIVE numberToString(_)
numberToString(n) ==
    IF n < 10 THEN <<Digits[n + 1]>>
    ELSE Append(numberToString(n \div 10), Digits[(n % 10) + 1])

\* Number(str) of a string of decimal digits, as the comparison with a number
\* converts it
RECURSIVE stringToNumber(_)
stringToNumber(str) ==
    IF str = <<>> THEN 0
    ELSE stringToNumber(SubSeq(str, 1, Len(str) - 1)) * 10
         + ((CHOOSE d \in 1..10 : Digits[d] = str[Len(str)]) - 1)

\* localStorage.getItem(key) of a key that is present
getItem(storage, key) == storage[key]

\* localStorage.getItem(key) === null
isNull(storage, key) == key \notin DOMAIN storage

\* localStorage.setItem(key, value): the storage afterwards
setItem(storage, key, value) ==
    [k \in DOMAIN storage \cup {key} |->
        IF k = key THEN numberToString(value) ELSE storage[k]]

\* a storage without keys
EmptyStorage == [k \in {} |-> <<>>]

-----------------------------------------------------------------------------
(* Letter generator *)

\* Math.random() returns k / RandomResolution for some k in RandomValues: fine
\* enough to reach every index of ALPHABET and of VOWELS
RandomResolution == Len(ALPHABET)

RandomValues == 0..(RandomResolution - 1)

\* getRandomLetter, given the value Math.random() returned
getRandomLetter(rnd) == charAt(ALPHABET, rnd * Len(ALPHABET), RandomResolution)

\* getRandomVowel drawing from the whole alphabet
getRandomVowelFromAlphabet(rnd) ==
    charAt(ALPHABET, rnd * Len(ALPHABET), RandomResolution)

\* getRandomVowel, given the value Math.random() returned
getRandomVowel(rnd) == charAt(VOWELS, rnd * Len(VOWELS), RandomResolution)

\* generateRandomLettersForCurrentGame(numLetters): the letters it sets, given the
\* values rnds[1], rnds[2], ... that its calls of Math.random() return
generateRandomLettersForCurrentGame(numLetters, rnds) ==
    <<getRandomVowel(rnds[1])>> \o
    [i \in 1..(numLetters - 1) |-> getRandomLetter(rnds[i + 1])]

-----------------------------------------------------------------------------
(* Word validator *)

\* the loop of wordContainsOnlyValidLetters over the rest of the word
RECURSIVE scanLetters(_, _)
scanLetters(word, allowedLetters) ==
    IF word = <<>> THEN TRUE
    ELSE LET letter == toUpperCase(Head(word)) IN
         IF includes(allowedLetters, letter)
         THEN scanLetters(Tail(word),
                          splice(allowedLetters, indexOf(allowedLetters, letter)))
         ELSE FALSE

\* wordContainsOnlyValidLetters without the splice: a tile serves any number of
\* times
wordContainsOnlyValidLettersNoSplice(word, letters) ==
    \A i \in 1..Len(word) : includes(letters, toUpperCase(word[i]))

\* wordContainsOnlyValidLetters(word), in a render whose letters are letters
wordContainsOnlyValidLetters(word, letters) == scanLetters(word, letters)

\* wasWordAlreadyUsed(word), in a render whose scored words are scored
wasWordAlreadyUsed(word, scored) == includes(scored, word)

\* What a dictionary lookup can end in: fetch throws (netError), or a response
\* with its ok flag and its body: "unparsable" (response.json() throws) or an array
\* of entries, each with or without a "word" property.
Entries == {[hasWord |-> FALSE, word |-> ""],
            [hasWord |-> TRUE, word |-> ""],
            [hasWord |-> TRUE, word |-> "word"]}

Responses ==
    {[netError |-> TRUE, ok |-> FALSE, parsable |-> FALSE, json |-> <<>>]}
    \cup {[netError |-> FALSE, ok |-> FALSE, parsable |-> p, json |-> <<>>] :
             p \in BOOLEAN}
    \cup {[netError |-> FALSE, ok |-> TRUE, parsable |-> FALSE, json |-> <<>>]}
    \cup {[netError |-> FALSE, ok |-> TRUE, parsable |-> TRUE, json |-> j] :
             j \in {<<>>} \cup {<<e>> : e \in Entries}}

\* the lookup confirms the word: a 2xx response whose first entry carries a
\* non-empty word
Confirms(response) ==
    /\ ~response.netError
    /\ response.ok
    /\ response.parsable
    /\ response.json # <<>>
    /\ response.json[1].hasWord
    /\ response.json[1].word # ""

\* isValidEnglishWord with a catch block that returns true
isValidEnglishWordCatchTrue(response) ==
    IF response.netError THEN "true"
    ELSE IF ~response.ok THEN "false"
    ELSE IF ~response.parsable THEN "true"
    ELSE IF response.json = <<>> THEN "true"
    ELSE IF response.json[1].hasWord /\ response.json[1].word # ""
         THEN "true"
         ELSE "false"

\* isValidEnglishWord: the value its promise resolves to, "true", "false" or
\* "undefined" (the catch block logs and returns nothing)
isValidEnglishWord(response) ==
    IF response.netError THEN "undefined"
    ELSE IF ~response.ok THEN "false"
    ELSE IF ~response.parsable THEN "undefined"
    ELSE IF response.json = <<>> THEN "undefined"
    ELSE IF response.json[1].hasWord /\ response.json[1].word # ""
         THEN "true"
         ELSE "false"

\* JavaScript truthiness of such a value
truthy(value) == value = "true"

-----------------------------------------------------------------------------
(* Inputs *)

\* what the player types into the input box: in a session with the letters
\* E,A,T,X,R both words have their letters, with A,B,C,D,E neither has
Words ==
    { <<"E","A","T">>,
      <<"e","a","t">> }

\* what the player types in the specification of overlapping lookups: two words
\* that the letters E,A,T,X,R spell and the dictionary knows
RaceWords ==
    { <<"E","A","T">>,
      <<"R","A","T","E">> }

\* what the player types in the specification with the clock
TimedWords == { <<"E","A","T">> }

\* the values Math.random() returns while a session's letters are generated:
\* the first sequence gives E,A,T,X,R and the second gives A,B,C,D,E
SessionDraws == { <<6, 0, 19, 23, 17>>, <<0, 1, 2, 3, 4>> }

-----------------------------------------------------------------------------
(* Feedback presenter *)

\* showFeedbackShort without the setTimeout
showFeedbackShortNoTimeout(message) ==
    /\ feedback' = message
    /\ feedbackAge' = 0
    /\ timers' = timers

\* showFeedbackShort that clears the pending timeout before it sets its own
showFeedbackShortClearsTimeout(message) ==
    /\ feedback' = message
    /\ feedbackAge' = 0
    /\ timers' = <<DurationTicks>>

\* showFeedbackShort(message): setFeedback(message), then setTimeout of the clear
showFeedbackShort(message) ==
    /\ feedback' = message
    /\ feedbackAge' = 0
    /\ timers' = Append(timers, DurationTicks)

\* the setTimeout callback of showFeedbackShort: setFeedback("")
timerCallback ==
    /\ feedback' = ""
    /\ feedbackAge' = 0

\* The oldest pending timer runs its callback.  Without a clock any amount of
\* time may have passed between two steps, so a pending timer may run at any step.
TimerFires ==
    /\ timers # <<>>
    /\ timers' = Tail(timers)
    /\ timerCallback
    /\ UNCHANGED <<currentWord, currentLetters, scoredWords, localStorage, pending>>
    /\ UNCHANGED gen
    /\ UNCHANGED confirmedWords

\* With the clock: a timer runs when it is due.
TimerDue ==
    /\ timers # <<>>
    /\ Head(timers) = 0
    /\ TimerFires

\* One tick of the clock passes: no timer is due (a due timer runs first), every
\* pending timer is one tick closer and the visible message one tick older.
Tick ==
    /\ timers # <<>>
    /\ \A i \in 1..Len(timers) : timers[i] > 0
    /\ timers' = [i \in 1..Len(timers) |-> timers[i] - 1]
    /\ feedbackAge' = IF feedback = "" THEN 0 ELSE feedbackAge + 1
    /\ UNCHANGED <<currentWord, currentLetters, scoredWords, feedback,
                   localStorage, pending>>
    /\ UNCHANGED gen
    /\ UNCHANGED confirmedWords

-----------------------------------------------------------------------------
(* Session controller *)

\* the input's onChange: setCurrentWord(event.target.value)
OnChange(value) ==
    /\ value # currentWord
    /\ currentWord' = value
    /\ UNCHANGED <<currentLetters, scoredWords, feedback, localStorage, pending,
                   timers, feedbackAge>>
    /\ UNCHANGED gen
    /\ UNCHANGED confirmedWords

\* the closure a lookup resumes in: the word passed to handleWordSubmission and the
\* currentWord and scoredWords of the render whose handler was called
Request(word) ==
    [word |-> word, currentWord |-> currentWord, scoredWords |-> scoredWords]

\* handleWordSubmission whose checks do not stop at the first failure: the
\* message of a failed check is shown and the lookup is issued all the same
HandleWordSubmissionNoShortCircuit ==
    LET word == currentWord IN
    /\ IF wasWordAlreadyUsed(word, scoredWords)
       THEN /\ Len(timers) < MaxTimers
            /\ showFeedbackShort(MsgDuplicate)
       ELSE IF ~wordContainsOnlyValidLetters(word, currentLetters)
       THEN /\ Len(timers) < MaxTimers
            /\ showFeedbackShort(MsgInvalidLetters)
       ELSE UNCHANGED <<feedback, timers, feedbackAge>>
    /\ BagCardinality(pending) < MaxInFlight
    /\ Len(scoredWords) < MaxScored
    /\ pending' = pending (+) SetToBag({Request(word)})
    /\ UNCHANGED <<currentWord, currentLetters, scoredWords, localStorage>>
    /\ UNCHANGED gen
    /\ UNCHANGED confirmedWords

\* handleWordSubmission(currentWord), from the Submit button or the Enter key, up
\* to the await of the lookup: isNewWordValid's first two checks, then the fetch
HandleWordSubmission ==
    LET word == currentWord IN
    /\ IF wasWordAlreadyUsed(word, scoredWords)
       THEN /\ Len(timers) < MaxTimers
            /\ showFeedbackShort(MsgDuplicate)
            /\ UNCHANGED pending
       ELSE IF ~wordContainsOnlyValidLetters(word, currentLetters)
       THEN /\ Len(timers) < MaxTimers
            /\ showFeedbackShort(MsgInvalidLetters)
            /\ UNCHANGED pending
       ELSE /\ BagCardinality(pending) < MaxInFlight
            /\ Len(scoredWords) < MaxScored
            /\ pending' = pending (+) SetToBag({Request(word)})
            /\ UNCHANGED <<feedback, timers, feedbackAge>>
    /\ UNCHANGED <<currentWord, currentLetters, scoredWords, localStorage>>
    /\ UNCHANGED gen
    /\ UNCHANGED confirmedWords

\* acceptWord without the toUpperCase
acceptWordNoUpperCase(req) ==
    /\ scoredWords' = Append(req.scoredWords, req.currentWord)
    /\ currentWord' = <<>>
    /\ showFeedbackShort(MsgNice)

\* acceptWord that reads the input as it is when the lookup ends, not the
\* currentWord of the render that submitted
acceptWordLiveInput(req) ==
    /\ scoredWords' = Append(req.scoredWords, wordToUpperCase(currentWord))
    /\ currentWord' = <<>>
    /\ showFeedbackShort(MsgNice)

\* handleWordSubmission after isNewWordValid returned true
acceptWord(req) ==
    /\ scoredWords' = Append(req.scoredWords, wordToUpperCase(req.currentWord))
    /\ currentWord' = <<>>
    /\ showFeedbackShort(MsgNice)

\* rejectWord that clears the input as an acceptance does
rejectWordClearsInput(req) ==
    /\ showFeedbackShort(MsgNotRecognized)
    /\ currentWord' = <<>>
    /\ UNCHANGED scoredWords

\* isNewWordValid after the lookup said no
rejectWord(req) ==
    /\ showFeedbackShort(MsgNotRecognized)
    /\ UNCHANGED <<scoredWords, currentWord>>

\* The lookup of req ends in response: the rest of isNewWordValid and of
\* handleWordSubmission run, in the closure of req.
LookupCompletes(req, response) ==
    /\ BagIn(req, pending)
    /\ Len(timers) < MaxTimers
    /\ pending' = pending (-) SetToBag({req})
    /\ IF ~truthy(isValidEnglishWord(response))
       THEN rejectWord(req)
       ELSE acceptWord(req)
    /\ UNCHANGED <<currentLetters, localStorage>>
    /\ UNCHANGED gen

\* endGame that stores the score of every game
endGameStorageAlwaysWrites(storage, scored) ==
    setItem(storage, HIGH_SCORE_PROPERTY, Len(scored))

\* endGame that stores the score whenever it differs from the stored one
endGameStorageWritesWhenDifferent(storage, scored) ==
    LET highScore == getItem(storage, HIGH_SCORE_PROPERTY)
        currentGameScore == Len(scored)
    IN  IF currentGameScore # stringToNumber(highScore)
        THEN setItem(storage, HIGH_SCORE_PROPERTY, Len(scored))
        ELSE storage

\* endGame up to the reload: the storage afterwards, in a render whose scored
\* words are scored.  The number is compared with the stored string as a number.
endGameStorage(storage, scored) ==
    LET highScore == getItem(storage, HIGH_SCORE_PROPERTY)
        currentGameScore == Len(scored)
    IN  IF currentGameScore > stringToNumber(highScore)
        THEN setItem(storage, HIGH_SCORE_PROPERTY, Len(scored))
        ELSE storage

\* the effect's initialisation of the high score
initHighScore(storage) ==
    IF isNull(storage, HIGH_SCORE_PROPERTY)
    THEN setItem(storage, HIGH_SCORE_PROPERTY, 0)
    ELSE storage

\* a new game that resets the words and the letters and keeps the page
resetWithoutReload(rnds) ==
    /\ currentWord' = <<>>
    /\ scoredWords' = <<>>
    /\ UNCHANGED <<feedback, feedbackAge, pending, timers>>
    /\ currentLetters' =
           generateRandomLettersForCurrentGame(DEFAULT_LETTERS_IN_GAME, rnds)

\* a new game whose state is reset while the lookups and timers of the old one
\* stay pending
reloadKeepsPending(rnds) ==
    /\ currentWord' = <<>>
    /\ scoredWords' = <<>>
    /\ feedback' = ""
    /\ feedbackAge' = 0
    /\ UNCHANGED <<pending, timers>>
    /\ currentLetters' =
           generateRandomLettersForCurrentGame(DEFAULT_LETTERS_IN_GAME, rnds)

\* window.location.reload(): the page and with it every pending lookup and timer
\* is discarded; the component mounts anew (useState initial values) and its effect
\* generates the letters (the storage is set apart, by the caller)
reload(rnds) ==
    /\ currentWord' = <<>>
    /\ scoredWords' = <<>>
    /\ feedback' = ""
    /\ feedbackAge' = 0
    /\ pending' = EmptyBag
    /\ timers' = <<>>
    /\ currentLetters' =
           generateRandomLettersForCurrentGame(DEFAULT_LETTERS_IN_GAME, rnds)

\* endGame: the Give Up (New Game) button
EndGame(rnds) ==
    /\ localStorage' = initHighScore(endGameStorage(localStorage, scoredWords))
    /\ reload(rnds)
    /\ genLetters' = currentLetters'
    /\ confirmedWords' = {}
    /\ UNCHANGED <<genNum, genPc>>

-----------------------------------------------------------------------------
(* The game *)

\* the high score on screen: Number(localStorage.getItem(HIGH_SCORE_PROPERTY))
HighScore == stringToNumber(getItem(localStorage, HIGH_SCORE_PROPERTY))

\* first visit: the component has mounted, its effect has generated the letters
\* and has stored a high score of 0
Init ==
    /\ currentWord = <<>>
    /\ scoredWords = <<>>
    /\ feedback = ""
    /\ feedbackAge = 0
    /\ pending = EmptyBag
    /\ timers = <<>>
    /\ localStorage = initHighScore(EmptyStorage)
    /\ \E rnds \in SessionDraws :
           currentLetters =
               generateRandomLettersForCurrentGame(DEFAULT_LETTERS_IN_GAME, rnds)
    /\ genNum = DEFAULT_LETTERS_IN_GAME
    /\ genLetters = currentLetters
    /\ genPc = "done"
    /\ confirmedWords = {}

Next ==
    \/ \E value \in Words : OnChange(value)
    \/ HandleWordSubmission
    \/ \E req \in BagToSet(pending), response \in Responses :
           LookupCompletes(req, response) /\ UNCHANGED confirmedWords
    \/ TimerFires
    \/ \E rnds \in SessionDraws : EndGame(rnds)

Spec == Init /\ [][Next]_vars

-----------------------------------------------------------------------------
(* The game with a record of the words the dictionary confirmed *)

\* the dictionary's answer to the lookup of req.word is recorded
recordConfirmation(req, response) ==
    confirmedWords' = IF Confirms(response)
                      THEN confirmedWords \cup {wordToUpperCase(req.word)}
                      ELSE confirmedWords

NextHistory ==
    \/ \E value \in Words : OnChange(value)
    \/ HandleWordSubmission
    \/ \E req \in BagToSet(pending), response \in Responses :
           LookupCompletes(req, response) /\ recordConfirmation(req, response)
    \/ TimerFires
    \/ \E rnds \in SessionDraws : EndGame(rnds)

HistorySpec == Init /\ [][NextHistory]_vars

-----------------------------------------------------------------------------
(* The game with a clock *)

NextTimed ==
    \/ \E value \in TimedWords : OnChange(value)
    \/ HandleWordSubmission
    \/ \E req \in BagToSet(pending), response \in Responses :
           LookupCompletes(req, response) /\ UNCHANGED confirmedWords
    \/ TimerDue
    \/ Tick
    \/ \E rnds \in SessionDraws : EndGame(rnds)

TimedSpec == Init /\ [][NextTimed]_vars

\* the event loop runs a due callback, and time passes
FairTimedSpec == TimedSpec /\ WF_vars(TimerDue) /\ WF_vars(Tick)

-----------------------------------------------------------------------------
(* The game with two different words, for lookups that overlap *)

\* the dictionary service confirms a word only if it has an entry for it, and it
\* has none for a word the player cannot have meant (the empty word)
ServiceCanAnswer(req, response) ==
    (response.ok /\ response.parsable /\ response.json # <<>>)
        => req.word \in RaceWords

NextRace ==
    \/ \E value \in RaceWords : OnChange(value)
    \/ HandleWordSubmission
    \/ \E req \in BagToSet(pending), response \in Responses :
           /\ ServiceCanAnswer(req, response)
           /\ LookupCompletes(req, response)
           /\ UNCHANGED confirmedWords
    \/ TimerFires
    \/ \E rnds \in SessionDraws : EndGame(rnds)

RaceSpec == Init /\ [][NextRace]_vars

-----------------------------------------------------------------------------
(* The mount effect, one call of Math.random() at a time *)

\* the page is loaded for the first time or again: the component has mounted
\* (useState initial values) and its effect is about to call
\* generateRandomLettersForCurrentGame(genNum)
InitGen ==
    /\ currentWord = <<>>
    /\ currentLetters = <<>>
    /\ scoredWords = <<>>
    /\ feedback = ""
    /\ feedbackAge = 0
    /\ pending = EmptyBag
    /\ timers = <<>>
    /\ localStorage \in {EmptyStorage, setItem(EmptyStorage, HIGH_SCORE_PROPERTY, 1)}
    /\ genNum \in 1..MaxNumLetters
    /\ genLetters = <<>>
    /\ genPc = "start"
    /\ confirmedWords = {}

\* letters.push(getRandomVowel())
GenVowel(rnd) ==
    /\ genPc = "start"
    /\ genLetters' = Append(genLetters, getRandomVowel(rnd))
    /\ genPc' = "loop"
    /\ UNCHANGED <<currentWord, currentLetters, scoredWords, feedback,
                   localStorage, pending, timers, feedbackAge, genNum,
                   confirmedWords>>

\* one round of the loop, i = Len(genLetters): letters.push(getRandomLetter())
GenLetter(rnd) ==
    /\ genPc = "loop"
    /\ Len(genLetters) < genNum
    /\ genLetters' = Append(genLetters, getRandomLetter(rnd))
    /\ UNCHANGED <<currentWord, currentLetters, scoredWords, feedback,
                   localStorage, pending, timers, feedbackAge, genNum, genPc,
                   confirmedWords>>

\* the loop ends: setCurrentLetters(letters), and the rest of the effect
GenSet ==
    /\ genPc = "loop"
    /\ ~(Len(genLetters) < genNum)
    /\ currentLetters' = genLetters
    /\ localStorage' = initHighScore(localStorage)
    /\ genPc' = "done"
    /\ UNCHANGED <<currentWord, scoredWords, feedback, pending, timers,
                   feedbackAge, genNum, genLetters, confirmedWords>>

NextGen ==
    \/ \E rnd \in RandomValues : GenVowel(rnd)
    \/ \E rnd \in RandomValues : GenLetter(rnd)
    \/ GenSet

SpecGen == InitGen /\ [][NextGen]_vars

-----------------------------------------------------------------------------
(* The validator on its own: one submission in any state of the inputs *)

\* the characters of the words tried
ValidateChars == {"A", "B", "b", " ", "!"}

\* every word of at most MaxWordLen of these characters
ValidateWords == UNION {[1..n -> ValidateChars] : n \in 0..MaxWordLen}

\* draws that give the letters A,B,C,D,E and E,A,T,X,R and A,B,B,A,C
ValidateDraws == SessionDraws \cup { <<0, 1, 1, 0, 2>> }

\* a session in which the player has scored nothing or the word A, and has typed
\* some word
InitValidate ==
    /\ currentWord \in ValidateWords
    /\ scoredWords \in {<<>>, << <<"A">> >>}
    /\ feedback = ""
    /\ feedbackAge = 0
    /\ pending = EmptyBag
    /\ timers = <<>>
    /\ localStorage = initHighScore(EmptyStorage)
    /\ \E rnds \in ValidateDraws :
           currentLetters =
               generateRandomLettersForCurrentGame(DEFAULT_LETTERS_IN_GAME, rnds)
    /\ genNum = DEFAULT_LETTERS_IN_GAME
    /\ genLetters = currentLetters
    /\ genPc = "done"
    /\ confirmedWords = {}

NextValidate == HandleWordSubmission

SpecValidate == InitValidate /\ [][NextValidate]_vars

-----------------------------------------------------------------------------
(* What the claims speak of *)

\* how often x occurs in seq
Count(seq, x) == Cardinality({i \in 1..Len(seq) : seq[i] = x})

\* the word's letters, upper and lower case alike, are a sub-multiset of letters
IsSubMultiset(word, letters) ==
    \A i \in 1..Len(word) :
        Count(wordToUpperCase(word), toUpperCase(word[i]))
            <= Count(letters, toUpperCase(word[i]))

\* the lookup ends in a network failure, a non-2xx response, or a body (empty
\* or not) whose first entry has no non-empty word
LookupFails(response) ==
    \/ response.netError
    \/ ~response.ok
    \/ response.json = <<>>
    \/ ~response.json[1].hasWord
    \/ response.json[1].word = ""

\* a step is the end of the lookup of req in response
IsCompletion(req, response) == LookupCompletes(req, response)

\* a step is a Give Up (New Game)
IsEndGame == \E rnds \in SessionDraws : EndGame(rnds)

Max(a, b) == IF a > b THEN a ELSE b

\* letters is a letter set of n letters A-Z with a vowel among them
IsLetterSet(letters, n) ==
    /\ Len(letters) = n
    /\ \A i \in 1..Len(letters) : \E k \in 1..Len(ALPHABET) : letters[i] = ALPHABET[k]
    /\ \E i \in 1..Len(letters) : letters[i] \in {"A", "E", "I", "O", "U"}

W_EAT == <<"E","A","T">>
W_eat == <<"e","a","t">>
W_ABBA == <<"A","B","B","A">>
L_ABCDE == <<"A","B","C","D","E">>
L_EATXR == <<"E","A","T","X","R">>

-----------------------------------------------------------------------------
(* Claims *)

\* C1: a submitted word, in any letter case, whose uppercase form is already in
\* the scored words is rejected with "Word already used!", no lookup is issued
\* for it and the scored words stay as they are.
C1_DuplicateRejectedInAnyCase ==
    [][(HandleWordSubmission /\ includes(scoredWords, wordToUpperCase(currentWord)))
        => (/\ feedback' = MsgDuplicate
            /\ pending' = pending
            /\ scoredWords' = scoredWords)]_vars

\* C2: in every reachable state the scored-word list holds no string twice.
C2_NoDuplicateScoredWords ==
    \A i, j \in 1..Len(scoredWords) : i # j => scoredWords[i] # scoredWords[j]

\* C3: for a submitted word that is not in the scored words, the letter check
\* passes (the lookup is issued) exactly when the word's letters, case ignored,
\* are a sub-multiset of the letter set; otherwise the submission is rejected
\* with "Word contains invalid letter(s)!" and nothing else changes.
C3_LetterCheckIsSubMultiset ==
    [][(HandleWordSubmission /\ ~includes(scoredWords, currentWord))
        => IF IsSubMultiset(currentWord, currentLetters)
           THEN /\ pending' = pending (+) SetToBag({Request(currentWord)})
                /\ feedback' = feedback
           ELSE /\ feedback' = MsgInvalidLetters
                /\ pending' = pending
                /\ scoredWords' = scoredWords]_vars

\* C3 witness: with the letters A,B,C,D,E the word ABBA has been rejected for its
\* letters.
C3_Witness ==
    /\ currentLetters = L_ABCDE
    /\ currentWord = W_ABBA
    /\ feedback = MsgInvalidLetters

\* C4: when the lookup of a submission confirms the word, then right after the
\* completion the uppercase form of the submitted word is in the scored words,
\* the input is empty and the feedback is "Nice!".
C4_AcceptedWordIsScored ==
    [][\A req \in BagToSet(pending), response \in Responses :
        (IsCompletion(req, response) /\ Confirms(response))
        => (/\ includes(scoredWords', wordToUpperCase(req.word))
            /\ currentWord' = <<>>
            /\ feedback' = MsgNice)]_vars

\* C4 witness: a word has just been accepted.
C4_Witness ==
    /\ scoredWords = <<W_EAT>>
    /\ currentWord = <<>>
    /\ feedback = MsgNice

\* C5: a rejected submission, for whichever of the three reasons, leaves the
\* scored words (and so the score), the input, the letters and the stored high
\* score as they were and sets the feedback to the message of its reason.
C5_RejectionChangesOnlyFeedback ==
    [][/\ (HandleWordSubmission /\ pending' = pending)
          => /\ UNCHANGED <<scoredWords, currentWord, currentLetters, localStorage>>
             /\ feedback' = IF includes(scoredWords, currentWord)
                            THEN MsgDuplicate
                            ELSE MsgInvalidLetters
       /\ \A req \in BagToSet(pending), response \in Responses :
            (IsCompletion(req, response) /\ ~Confirms(response))
            => /\ UNCHANGED <<scoredWords, currentWord, currentLetters, localStorage>>
               /\ feedback' = MsgNotRecognized]_vars

\* C5 witness: the player's word is still in the input after the dictionary
\* rejected it.
C5_Witness ==
    /\ currentWord = W_EAT
    /\ currentLetters = L_EATXR
    /\ pending = EmptyBag
    /\ feedback = MsgNotRecognized

\* C6: a lookup that ends in a network failure, a non-2xx response or a body
\* without a non-empty word in its first entry rejects the submission with
\* "Word not recognized!", adds nothing to the scored words and leaves no lookup
\* behind (no retry).
C6_LookupFailsClosed ==
    [][\A req \in BagToSet(pending), response \in Responses :
        (IsCompletion(req, response) /\ LookupFails(response))
        => (/\ feedback' = MsgNotRecognized
            /\ scoredWords' = scoredWords
            /\ BagCardinality(pending') < BagCardinality(pending))]_vars

\* C6 witness: a lookup has failed and nothing is scored or in flight.
C6_Witness ==
    /\ feedback = MsgNotRecognized
    /\ scoredWords = <<>>
    /\ pending = EmptyBag
    /\ currentWord = W_eat

\* C7: the stored high score right after endGame is the maximum of the stored
\* high score before it and the number of scored words.
C7_HighScoreIsMax ==
    [][IsEndGame => HighScore' = Max(HighScore, Len(scoredWords))]_vars

\* C7 witness: a game of two words has ended and its score is stored.
C7_Witness ==
    /\ HighScore = 2
    /\ scoredWords = <<>>
    /\ currentLetters = L_ABCDE

\* C8: after endGame the next session starts with no scored words, an empty
\* input, no feedback and a generated letter set, whatever the ended session was.
C8_NewSessionIsFresh ==
    [][IsEndGame
        => (/\ scoredWords' = <<>>
            /\ currentWord' = <<>>
            /\ feedback' = ""
            /\ IsLetterSet(currentLetters', DEFAULT_LETTERS_IN_GAME))]_vars

\* C8 witness: a session with a scored word has ended and a session with other
\* letters has begun.
C8_Witness ==
    /\ HighScore = 1
    /\ scoredWords = <<>>
    /\ currentWord = <<>>
    /\ feedback = ""
    /\ currentLetters = L_ABCDE

\* C9: once generateRandomLettersForCurrentGame(n) has set the letters, n >= 1,
\* they are exactly n letters A-Z with at least one of A,E,I,O,U among them.
C9_GeneratedLetters ==
    genPc = "done" => IsLetterSet(currentLetters, genNum)

\* C9 witness: two letters have been generated, the vowel U and then Z.
C9_Witness ==
    /\ genPc = "done"
    /\ genNum = 2
    /\ currentLetters = <<"U", "Z">>

\* C10: a visible feedback message is never older than the feedback duration,
\* and it is eventually cleared.
C10_FeedbackClears ==
    /\ [](feedback # "" => feedbackAge <= DurationTicks)
    /\ (feedback # "") ~> (feedback = "")

\* C10 witness: "Nice!" was shown for a scored word and has been cleared.
C10_Witness ==
    /\ scoredWords = <<W_EAT>>
    /\ feedback = ""
    /\ timers = <<>>

\* C11: a submission of the empty string is rejected with "Word contains
\* invalid letter(s)!" and no lookup is issued for it.
C11_EmptyWordRejectedForLetters ==
    [][(HandleWordSubmission /\ currentWord = <<>>)
        => (/\ feedback' = MsgInvalidLetters
            /\ pending' = pending)]_vars

\* new is old with one element added at its end
IsAppend(old, new) ==
    /\ Len(new) = Len(old) + 1
    /\ SubSeq(new, 1, Len(old)) = old

\* C12: until endGame every change of the scored-word list adds one word at its
\* end, whatever lookups are in flight: no scored word is lost and the score
\* never decreases.
C12_ScoredWordsAppendOnly ==
    [][\/ IsEndGame
       \/ scoredWords' = scoredWords
       \/ IsAppend(scoredWords, scoredWords')]_vars

\* C13: a showFeedbackShort leaves every pending clear in place and adds its own,
\* and a due clear empties the feedback whichever message is on screen.
C13_ShowDoesNotCancelPendingClear ==
    [][/\ Len(timers') > Len(timers)
          => (feedback' # "" /\ timers' = Append(timers, DurationTicks))
       /\ (feedback' # "" /\ (feedback' # feedback \/ feedbackAge' < feedbackAge))
          => timers' = Append(timers, DurationTicks)
       /\ TimerDue => feedback' = ""]_vars

\* C13 witness: the last message was shown less than the duration ago (its own
\* clear is still pending and not yet due) and has been wiped by an earlier clear.
C13_Witness ==
    /\ feedback = ""
    /\ timers # <<>>
    /\ timers[Len(timers)] > 0
    /\ timers[Len(timers)] < DurationTicks

\* C14: the stored high score is a string of digits; a step that changes it is
\* an endGame and makes it strictly greater.
C14_HighScoreOnlyGrowsAtEndGame ==
    /\ [](\A i \in 1..Len(localStorage[HIGH_SCORE_PROPERTY]) :
            \E d \in 1..Len(Digits) : localStorage[HIGH_SCORE_PROPERTY][i] = Digits[d])
    /\ [][localStorage' # localStorage
            => (IsEndGame /\ HighScore' > HighScore)]_vars

\* C14 witness: in a session after one that stored a high score of 2 a word has
\* been scored and the stored high score is still 2.
C14_Witness ==
    /\ HighScore = 2
    /\ scoredWords = <<W_EAT>>
    /\ feedback = MsgNice

\* every lookup in flight belongs to a submission that passed the duplicate check
\* and the letter check, and its closure's currentWord is the word submitted
PendingPassedFirstChecks ==
    \A req \in BagToSet(pending) :
        /\ req.currentWord = req.word
        /\ ~includes(req.scoredWords, req.word)
        /\ IsSubMultiset(req.word, currentLetters)

\* C15: every scored word is the upper-case form of a word that passed all the
\* checks of its own submission: it is a sub-multiset of the session's letters,
\* the dictionary confirmed its own lookup, and the word appended when a lookup
\* is accepted is the upper-case form of the word that lookup was issued for,
\* whatever the input holds by then and whatever completed in between.
C15_ScoredWordPassedItsOwnChecks ==
    /\ [](/\ PendingPassedFirstChecks
          /\ \A i \in 1..Len(scoredWords) :
                /\ scoredWords[i] \in confirmedWords
                /\ IsSubMultiset(scoredWords[i], currentLetters))
    /\ [][(feedback' = MsgNice /\ pending' # pending)
            => \A req \in BagToSet(pending), response \in Responses :
                  IsCompletion(req, response)
                      => /\ Confirms(response)
                         /\ scoredWords' = Append(req.scoredWords, wordToUpperCase(req.word))]_vars

\* C15 witness: EAT has been scored and the input cleared while a submission of
\* eat, made before that lookup ended, is still in flight.
C15_Witness ==
    /\ scoredWords = <<W_EAT>>
    /\ confirmedWords = {W_EAT}
    /\ currentWord = <<>>
    /\ feedback = MsgNice
    /\ \E req \in BagToSet(pending) : req.word = W_eat /\ req.scoredWords = <<>>

\* C16: the checks run in the order duplicate, letters, dictionary and stop at the
\* first that fails: a word in the scored words gets "Word already used!" and no
\* lookup, else a word whose letters are not available gets "Word contains
\* invalid letter(s)!" and no lookup, else the lookup is issued and no message set.
C16_ChecksInOrder ==
    [][HandleWordSubmission
        => IF includes(scoredWords, currentWord)
           THEN feedback' = MsgDuplicate /\ pending' = pending
           ELSE IF ~IsSubMultiset(currentWord, currentLetters)
           THEN feedback' = MsgInvalidLetters /\ pending' = pending
           ELSE /\ BagCardinality(pending') = BagCardinality(pending) + 1
                /\ UNCHANGED <<feedback, timers>>]_vars

\* C16 witness: the scored word A was submitted again and rejected as a duplicate
\* without a lookup.
C16_Witness ==
    /\ scoredWords = << <<"A">> >>
    /\ currentWord = <<"A">>
    /\ feedback = MsgDuplicate
    /\ pending = EmptyBag

\* C17: endGame leaves no lookup and no timer of the ended session pending, so
\* none can complete in the session that follows.
C17_NothingPendingAfterEndGame ==
    [][IsEndGame => (pending' = EmptyBag /\ timers' = <<>>)]_vars

\* C17 witness: the session has a scored word, a lookup in flight and a clear
\* pending; endGame can run here.
C17_Witness ==
    /\ scoredWords # <<>>
    /\ pending # EmptyBag
    /\ timers # <<>>
    /\ ENABLED IsEndGame

====
